---- MODULE Spec2Model ----
(***************************************************************************)
(* A model of src/profile.py: the Timer decorator.  Timer.__init__ binds   *)
(* the requested statistics, Timer.__call__ wraps a target function, and   *)
(* the wrapper runs the target `runs` times, reduces the durations with    *)
(* the bound metrics, stores the report on the Timer, prints it and        *)
(* returns (rvalue, report).                                               *)
(*                                                                         *)
(* Durations are whole clock ticks.  A statistic's value is kept exact:    *)
(* a fraction num/den, or the square root of one for stdev.  A report is   *)
(* a dict object on a heap, and self.report and a returned report are      *)
(* references to it, as in Python.                                         *)
(***************************************************************************)
EXTENDS Integers, Sequences, FiniteSets, TLC

\* Largest run count a Timer is constructed with.
MaxRuns == 2
\* Calls of wrapped functions in one behaviour.
MaxCalls == 2

\* The threads that may call wrapped functions.
Threads == {1, 2}
\* The target functions (their __name__) that get decorated.
Funcs == {"f", "g"}
\* The arguments a wrapped function is called with.
Args == {"x", "y"}
\* perf_counter differences, in ticks.
Durations == {1, 2}

---------------------------------------------------------------------------
\* Entries of the stats argument: a string, a callable (known by its
\* __name__), or an object that is neither.
Str(n) == [kind |-> "str", name |-> n]
Fn(n) == [kind |-> "callable", name |-> n]
Other(n) == [kind |-> "other", name |-> n]

\* The keys of str_to_function.
str_to_function == {"mean", "median", "stdev", "total", "min", "max"}

\* The default of the stats parameter.
DefaultStats == << Str("mean"), Str("median"), Str("max"), Str("min"), Str("stdev"), Str("total") >>

\* A dict is a sequence of [k, v] in insertion order.
Keys(d) == {d[i].k : i \in DOMAIN d}

KeySeq(d) == [i \in DOMAIN d |-> d[i].k]

\* d[k] = v: a present key keeps its place, a new key goes last.
DictSet(d, k, v) ==
  IF k \in Keys(d)
    THEN [i \in DOMAIN d |-> IF d[i].k = k THEN [k |-> k, v |-> v] ELSE d[i]]
    ELSE Append(d, [k |-> k, v |-> v])

\* del d[k]
DictDel(d, k) == SelectSeq(d, LAMBDA e : e.k # k)

\* d[k]
DictGet(d, k) == d[CHOOSE i \in DOMAIN d : d[i].k = k].v

---------------------------------------------------------------------------
\* The reductions.  A value is the fraction num/den, or its square root.
Exact(n, d) == [kind |-> "exact", num |-> n, den |-> d]

RECURSIVE Sum(_)
Sum(s) == IF s = << >> THEN 0 ELSE Head(s) + Sum(Tail(s))

RECURSIVE SumSq(_)
SumSq(s) == IF s = << >> THEN 0 ELSE Head(s) * Head(s) + SumSq(Tail(s))

Min(s) == CHOOSE x \in {s[i] : i \in DOMAIN s} : \A j \in DOMAIN s : x <= s[j]

Max(s) == CHOOSE x \in {s[i] : i \in DOMAIN s} : \A j \in DOMAIN s : x >= s[j]

\* sorted(s)
RECURSIVE Sorted(_)
Sorted(s) ==
  IF s = << >> THEN << >>
  ELSE LET i == CHOOSE i \in DOMAIN s : \A j \in DOMAIN s : s[i] <= s[j]
           rest == [j \in 1..(Len(s) - 1) |-> IF j < i THEN s[j] ELSE s[j + 1]]
       IN << s[i] >> \o Sorted(rest)

\* statistics.mean
Mean(s) == Exact(Sum(s), Len(s))

\* statistics.median: the middle sample, or the mean of the two middle ones.
Median(s) ==
  LET t == Sorted(s)
      n == Len(s)
  IN IF n % 2 = 1 THEN Exact(t[(n + 1) \div 2], 1)
     ELSE Exact(t[n \div 2] + t[n \div 2 + 1], 2)

\* statistics.stdev: the square root of the sample variance
\* (n * sum(x^2) - sum(x)^2) / (n * (n - 1)); it needs two samples.
Stdev(s) ==
  LET n == Len(s)
  IN [kind |-> "sqrt", num |-> n * SumSq(s) - Sum(s) * Sum(s), den |-> n * (n - 1)]

\* The callables handed in through stats, by __name__: range_stat is
\* max - min, and a user function that happens to be called stdev counts
\* the samples.
CustomApply(name, s) ==
  IF name = "range_stat" THEN Exact(Max(s) - Min(s), 1) ELSE Exact(Len(s), 1)

\* A bound function: one of str_to_function's, or a callable of the caller.
Builtin(n) == [kind |-> "builtin", name |-> n]

\* Whether func(time_series) raises: the statistics functions raise
\* StatisticsError on too few samples, min and max ValueError on none.
ApplyRaises(fn, s) ==
  /\ fn.kind = "builtin"
  /\ \/ fn.name = "stdev" /\ Len(s) < 2
     \/ fn.name \in {"mean", "median", "min", "max"} /\ Len(s) < 1

\* func(time_series)
Apply(fn, s) ==
  IF fn.kind = "callable" THEN CustomApply(fn.name, s)
  ELSE CASE fn.name = "mean" -> Mean(s)
         [] fn.name = "median" -> Median(s)
         [] fn.name = "stdev" -> Stdev(s)
         [] fn.name = "total" -> Exact(Sum(s), 1)
         [] fn.name = "min" -> Exact(Min(s), 1)
         [] OTHER -> Exact(Max(s), 1)

\* {name: func(time_series) for name, func in self.metrics.items()}
ComputeReport(metrics, s) ==
  [i \in DOMAIN metrics |-> [k |-> metrics[i].k, v |-> Apply(metrics[i].v, s)]]

ReportRaises(metrics, s) == \E i \in DOMAIN metrics : ApplyRaises(metrics[i].v, s)

---------------------------------------------------------------------------
\* Timer.__init__

\* The loop passing over a string that is no key of str_to_function.
RECURSIVE BindStatsSkip(_, _, _)
BindStatsSkip(stats, i, metrics) ==
  IF i > Len(stats) THEN [raised |-> FALSE, metrics |-> metrics, key |-> ""]
  ELSE LET s == stats[i]
       IN IF s.kind = "str" /\ s.name \in str_to_function
            THEN BindStatsSkip(stats, i + 1, DictSet(metrics, s.name, Builtin(s.name)))
          ELSE IF s.kind = "callable"
            THEN BindStatsSkip(stats, i + 1, DictSet(metrics, s.name, s))
          ELSE BindStatsSkip(stats, i + 1, metrics)

\* The loop raising KeyError for every entry it cannot bind.
RECURSIVE BindStatsStrict(_, _, _)
BindStatsStrict(stats, i, metrics) ==
  IF i > Len(stats) THEN [raised |-> FALSE, metrics |-> metrics, key |-> ""]
  ELSE LET s == stats[i]
       IN IF s.kind = "str" /\ s.name \in str_to_function
            THEN BindStatsStrict(stats, i + 1, DictSet(metrics, s.name, Builtin(s.name)))
          ELSE IF s.kind = "callable"
            THEN BindStatsStrict(stats, i + 1, DictSet(metrics, s.name, s))
          ELSE [raised |-> TRUE, metrics |-> << >>, key |-> s.name]

\* The loop over stats, from entry i on: a string in str_to_function is
\* bound to that function, any other string raises KeyError, a callable is
\* bound under its __name__, and an entry that is neither matches no branch.
RECURSIVE BindStats(_, _, _)
BindStats(stats, i, metrics) ==
  IF i > Len(stats) THEN [raised |-> FALSE, metrics |-> metrics, key |-> ""]
  ELSE LET s == stats[i]
       IN IF s.kind = "str"
            THEN IF s.name \in str_to_function
                   THEN BindStats(stats, i + 1, DictSet(metrics, s.name, Builtin(s.name)))
                   ELSE [raised |-> TRUE, metrics |-> << >>, key |-> s.name]
          ELSE IF s.kind = "callable"
            THEN BindStats(stats, i + 1, DictSet(metrics, s.name, s))
          ELSE BindStats(stats, i + 1, metrics)

\* stdev kept whatever the run count.
KeepStdev(n, metrics) == metrics

\* if runs == 1 and "stdev" in metrics: del metrics["stdev"]
DropStdev(n, metrics) ==
  IF n = 1 /\ "stdev" \in Keys(metrics) THEN DictDel(metrics, "stdev") ELSE metrics

\* self.metrics, or the KeyError.
InitMetrics(n, stats) ==
  LET b == BindStats(stats, 1, << >>)
  IN IF b.raised THEN b ELSE [b EXCEPT !.metrics = DropStdev(n, b.metrics)]

---------------------------------------------------------------------------
\* Timer.__print_report: the lines it prints.

\* str.title() of the metric names in use.
Title(name) ==
  CASE name = "mean" -> "Mean"
    [] name = "median" -> "Median"
    [] name = "stdev" -> "Stdev"
    [] name = "total" -> "Total"
    [] name = "min" -> "Min"
    [] name = "max" -> "Max"
    [] name = "range_stat" -> "Range_Stat"
    [] OTHER -> name

\* round(value, ndigits), and format(value, ".2f")
Round(v, ndigits) == [kind |-> "round", of |-> v, ndigits |-> ndigits]

Fixed2(v) == [kind |-> "fixed", of |-> v, ndigits |-> 2]

HeaderLine(name) == [line |-> "header", name |-> name]

\* The loop stopping one entry short.
MetricLinesShort(rep, digits) ==
  [i \in 1..(Len(rep) - 1) |->
     [line |-> "metric", name |-> Title(rep[i].k),
      value |-> IF digits = -1 THEN rep[i].v ELSE Round(rep[i].v, digits)]]

\* The for loop over self.report.items().
MetricLines(rep, digits) ==
  [i \in DOMAIN rep |->
     [line |-> "metric", name |-> Title(rep[i].k),
      value |-> IF digits = -1 THEN rep[i].v ELSE Round(rep[i].v, digits)]]

\* all(x in self.report for x in ["stdev", "mean"])
HasSummary(rep) == \A x \in {"stdev", "mean"} : x \in Keys(rep)

SummaryLines(rep) ==
  IF HasSummary(rep)
    THEN << [line |-> "summary", mean |-> Fixed2(DictGet(rep, "mean")),
             stdev |-> Fixed2(DictGet(rep, "stdev"))] >>
    ELSE << >>

---------------------------------------------------------------------------
\* The state.

VARIABLES
  timer,         \* "new" before Timer(...), then "ok", or "KeyError" if it raised
  stats,         \* the stats argument Timer was constructed with
  key,           \* the key of the KeyError
  runs, print_report, round_floats, func_name, report, metrics,  \* the Timer's fields
  heap,          \* the report dicts; self.report and returned reports index it
  wrapped,       \* the functions a wrapper of this Timer exists for
  threads,       \* the threads that run
  frames,        \* per thread, the wrapper call it is in
  callsLeft,     \* calls of wrapped functions still to begin
  scope,         \* the inputs this behaviour draws from: run counts, stats lists,
                 \* print_report and round_floats pairs, functions, arguments
  calls,         \* the finished calls, in the order they ended
  stdout         \* the lines printed

vars == << timer, stats, key, runs, print_report, round_floats, func_name, report,
           metrics, heap, wrapped, threads, frames, callsLeft, scope, calls, stdout >>

selfVars == << timer, stats, key, runs, print_report, round_floats, metrics, scope >>

\* No return value yet.
None == [func |-> "", args |-> "", n |-> 0]

\* What the n-th invocation of func(args) within a call returns.
ReturnValue(f, a, n) == [func |-> f, args |-> a, n |-> n]

Idle ==
  [pc |-> "idle", func |-> "", args |-> "", time_series |-> << >>, rvalue |-> None,
   invoked |-> << >>, printed |-> << >>, entry |-> 0]

\* The stats arguments tried: every list of at most two of these entries,
\* the default, the list of the end-to-end scenario, and a user function
\* named stdev.
Entries == {Str("mean"), Str("stdev"), Str("bogus"), Fn("range_stat"), Other("42")}

StatsInputs ==
  {<< >>} \cup {<< a >> : a \in Entries} \cup {<< a, b >> : a \in Entries, b \in Entries}
    \cup {DefaultStats,
          << Str("mean"), Str("min"), Str("max"), Str("total") >>,
          << Fn("stdev"), Str("total") >>}

\* round_floats: no rounding, or two places.
RoundInputs == {-1, 2}

\* The stats arguments of the behaviours that follow several calls.
CoreStats == {DefaultStats, << Fn("range_stat"), Str("stdev") >>}

\* Every pair of print_report and round_floats.
PrintInputs == BOOLEAN \X RoundInputs

InitWith(ths, n, sc) ==
  /\ timer = "new"
  /\ stats = << >>
  /\ key = ""
  /\ runs = 0
  /\ print_report = TRUE
  /\ round_floats = -1
  /\ func_name = ""
  /\ report = 0
  /\ metrics = << >>
  /\ heap = << >>
  /\ wrapped = {}
  /\ threads = ths
  /\ frames = [t \in Threads |-> Idle]
  /\ callsLeft = n
  /\ scope = sc
  /\ calls = << >>
  /\ stdout = << >>

\* One thread and several calls of one wrapped function: the documented
\* use.  Run counts start at 1: with runs = 0 the loop body never runs.
Init ==
  InitWith({1}, MaxCalls,
           [runs |-> 1..MaxRuns, stats |-> CoreStats, print |-> {<< TRUE, 2 >>, << FALSE, -1 >>},
            funcs |-> {"f"}, args |-> Args])

\* Timer(runs, print_report, round_floats, stats)
Construct(n, pr, rf, st) ==
  /\ timer = "new"
  /\ stats' = st
  /\ LET m == InitMetrics(n, st)
     IN IF m.raised
          THEN /\ timer' = "KeyError"
               /\ key' = m.key
               /\ UNCHANGED << runs, print_report, round_floats, func_name, report,
                               metrics, heap >>
          ELSE /\ timer' = "ok"
               /\ func_name' = ""
               /\ runs' = n
               /\ print_report' = pr
               /\ round_floats' = rf
               /\ heap' = << << >> >>
               /\ report' = 1
               /\ metrics' = m.metrics
               /\ UNCHANGED key
  /\ UNCHANGED << wrapped, threads, frames, callsLeft, scope, calls, stdout >>

\* Timer.__call__(input_func): self.func_name = input_func.__name__; return wrapper
Wrap(t, f) ==
  /\ timer = "ok"
  /\ t \in threads
  /\ frames[t].pc = "idle"
  /\ func_name' = f
  /\ wrapped' = wrapped \cup {f}
  /\ UNCHANGED << selfVars, report, heap, threads, frames, callsLeft, calls, stdout >>

---------------------------------------------------------------------------
\* wrapper(*args, **kwargs), the closure over input_func, step by step.

\* The loop running once too often.
LoopPcOneMore(time_series) == IF Len(time_series) <= runs THEN "loop" ELSE "reduce"

\* for _ in range(self.runs): whether another iteration follows.
LoopPc(time_series) == IF Len(time_series) < runs THEN "loop" ELSE "reduce"

\* time_series = [], at the wrapper's entry; entry notes self.report then.
EnterWrapper(f, a, rep) ==
  [Idle EXCEPT !.pc = LoopPc(<< >>), !.func = f, !.args = a, !.entry = rep]

\* The loop body keeping the first return value instead of the last.
RunBodyKeepFirst(fr, d) ==
  [fr EXCEPT !.invoked = Append(@, [func |-> fr.func, args |-> fr.args]),
             !.rvalue = IF fr.rvalue = None THEN ReturnValue(fr.func, fr.args, 1) ELSE @,
             !.time_series = Append(@, d)]

\* One iteration whose invocation returns after d ticks:
\* rvalue = input_func(*args, **kwargs); time_series.append(end - start)
RunBody(fr, d) ==
  [fr EXCEPT !.invoked = Append(@, [func |-> fr.func, args |-> fr.args]),
             !.rvalue = ReturnValue(fr.func, fr.args, Len(fr.invoked) + 1),
             !.time_series = Append(@, d)]

\* A raising invocation that is tried once more before the error leaves.
RaiseBodyRetry(fr) ==
  [fr EXCEPT !.invoked = @ \o << [func |-> fr.func, args |-> fr.args],
                                  [func |-> fr.func, args |-> fr.args] >>]

\* One iteration whose invocation raises: nothing is assigned.
RaiseBody(fr) == [fr EXCEPT !.invoked = Append(@, [func |-> fr.func, args |-> fr.args])]

\* The report dict updated in place instead of replaced.
StoreInPlace(h, rep, d) == [heap |-> [h EXCEPT ![rep] = d], report |-> rep]

\* The new dict never assigned to self.report.
StoreLocal(h, rep, d) == [heap |-> Append(h, d), report |-> rep]

\* self.report = {...}: a new dict object, and self.report refers to it.
StoreReport(h, rep, d) == [heap |-> Append(h, d), report |-> Len(h) + 1]

\* A call that ended by return: what it returned, seen is the returned
\* dict's content at that moment.
Returned(fr, rep, h) ==
  [outcome |-> "returned", error |-> "", func |-> fr.func, args |-> fr.args,
   rvalue |-> fr.rvalue, report |-> rep, seen |-> h[rep],
   time_series |-> fr.time_series, invoked |-> fr.invoked, printed |-> fr.printed,
   entry |-> fr.entry, stored |-> rep]

\* A call that ended by an exception: nothing is returned.
Raised(fr, err, rep) ==
  [outcome |-> "raised", error |-> err, func |-> fr.func, args |-> fr.args,
   rvalue |-> None, report |-> 0, seen |-> << >>,
   time_series |-> fr.time_series, invoked |-> fr.invoked, printed |-> fr.printed,
   entry |-> fr.entry, stored |-> rep]

BeginCall(t, f, a) ==
  /\ timer = "ok"
  /\ t \in threads
  /\ frames[t].pc = "idle"
  /\ f \in wrapped
  /\ callsLeft > 0
  /\ callsLeft' = callsLeft - 1
  /\ frames' = [frames EXCEPT ![t] = EnterWrapper(f, a, report)]
  /\ UNCHANGED << selfVars, func_name, report, heap, wrapped, threads, calls, stdout >>

RunTarget(t, d) ==
  /\ frames[t].pc = "loop"
  /\ LET fr == RunBody(frames[t], d)
     IN frames' = [frames EXCEPT ![t] = [fr EXCEPT !.pc = LoopPc(fr.time_series)]]
  /\ UNCHANGED << selfVars, func_name, report, heap, wrapped, threads, callsLeft,
                  calls, stdout >>

\* The target raises: the exception leaves the wrapper.
TargetRaises(t) ==
  /\ frames[t].pc = "loop"
  /\ calls' = Append(calls, Raised(RaiseBody(frames[t]), "TargetError", report))
  /\ frames' = [frames EXCEPT ![t] = Idle]
  /\ UNCHANGED << selfVars, func_name, report, heap, wrapped, threads, callsLeft, stdout >>

\* self.report = {name: func(time_series) ...}; if self.print_report: ...
Reduce(t) ==
  /\ frames[t].pc = "reduce"
  /\ IF ReportRaises(metrics, frames[t].time_series)
       THEN /\ calls' = Append(calls, Raised(frames[t], "StatisticsError", report))
            /\ frames' = [frames EXCEPT ![t] = Idle]
            /\ UNCHANGED << report, heap >>
       ELSE LET st == StoreReport(heap, report, ComputeReport(metrics, frames[t].time_series))
            IN /\ heap' = st.heap
               /\ report' = st.report
               /\ frames' = [frames EXCEPT ![t].pc = IF print_report THEN "print" ELSE "return"]
               /\ UNCHANGED calls
  /\ UNCHANGED << selfVars, func_name, wrapped, threads, callsLeft, stdout >>

\* __print_report: the header and the loop over self.report.items()
PrintReport(t) ==
  /\ frames[t].pc = "print"
  /\ LET lines == << HeaderLine(func_name) >> \o MetricLines(heap[report], round_floats)
     IN /\ stdout' = stdout \o lines
        /\ frames' = [frames EXCEPT ![t].pc = "summary", ![t].printed = @ \o lines]
  /\ UNCHANGED << selfVars, func_name, report, heap, wrapped, threads, callsLeft, calls >>

\* __print_report: the mean and standard deviation line
PrintSummary(t) ==
  /\ frames[t].pc = "summary"
  /\ LET lines == SummaryLines(heap[report])
     IN /\ stdout' = stdout \o lines
        /\ frames' = [frames EXCEPT ![t].pc = "return", ![t].printed = @ \o lines]
  /\ UNCHANGED << selfVars, func_name, report, heap, wrapped, threads, callsLeft, calls >>

\* return rvalue, self.report
Return(t) ==
  /\ frames[t].pc = "return"
  /\ calls' = Append(calls, Returned(frames[t], report, heap))
  /\ frames' = [frames EXCEPT ![t] = Idle]
  /\ UNCHANGED << selfVars, func_name, report, heap, wrapped, threads, callsLeft, stdout >>

Next ==
  \/ \E n \in scope.runs, p \in scope.print, st \in scope.stats :
       Construct(n, p[1], p[2], st)
  \/ \E t \in Threads, f \in scope.funcs : Wrap(t, f)
  \/ \E t \in Threads, f \in wrapped, a \in scope.args : BeginCall(t, f, a)
  \/ \E t \in Threads, d \in Durations : RunTarget(t, d)
  \/ \E t \in Threads : TargetRaises(t)
  \/ \E t \in Threads : Reduce(t)
  \/ \E t \in Threads : PrintReport(t)
  \/ \E t \in Threads : PrintSummary(t)
  \/ \E t \in Threads : Return(t)

Spec == Init /\ [][Next]_vars

\* Two threads share the Timer and its wrapper, with one run per call or
\* two.
InitConc ==
  InitWith(Threads, MaxCalls,
           [runs |-> {1, 2}, stats |-> {<< Str("mean"), Str("total") >>}, print |-> {<< TRUE, -1 >>},
            funcs |-> {"f"}, args |-> {"x"}])

SpecConc == InitConc /\ [][Next]_vars

\* One thread and a single call, with every stats argument, every pair of
\* print_report and round_floats, and both functions wrapped by the Timer.
InitWide ==
  InitWith({1}, 1,
           [runs |-> 1..MaxRuns, stats |-> StatsInputs, print |-> PrintInputs, funcs |-> Funcs, args |-> {"x"}])

SpecWide == InitWide /\ [][Next]_vars

---------------------------------------------------------------------------
\* The claims.

ReturnedCalls == {i \in DOMAIN calls : calls[i].outcome = "returned"}

TargetErrors == {i \in DOMAIN calls : calls[i].outcome = "raised" /\ calls[i].error = "TargetError"}

\* n invocations of func with the call's arguments.
Invocations(c, n) == [i \in 1..n |-> [func |-> c.func, args |-> c.args]]

\* C1: in a call whose target does not raise, the target is invoked exactly
\* runs times with the call's arguments and the sample series holds one
\* duration per invocation: once the loop is left, and so when the
\* statistics are computed, both have length runs; inside the loop the two
\* lengths agree and stay below runs.
C1_RunsSamples ==
  /\ \A t \in threads :
       /\ frames[t].pc = "loop" =>
            /\ Len(frames[t].time_series) < runs
            /\ frames[t].invoked = Invocations(frames[t], Len(frames[t].time_series))
       /\ frames[t].pc \in {"reduce", "print", "summary", "return"} =>
            /\ Len(frames[t].time_series) = runs
            /\ frames[t].invoked = Invocations(frames[t], runs)
  /\ \A i \in ReturnedCalls :
       /\ Len(calls[i].time_series) = runs
       /\ calls[i].invoked = Invocations(calls[i], runs)

\* A call about to compute its statistics after more than one run.
C1_Witness ==
  \E t \in threads :
    /\ frames[t].pc = "reduce"
    /\ runs >= 2
    /\ Len(frames[t].time_series) = runs
    /\ frames[t].args = "y"

\* C2: a call returns the pair of the value the runs-th invocation of the
\* target returned and the report this call stored; what the earlier
\* invocations returned is not returned.
C2_LastReturnValue ==
  \A i \in ReturnedCalls :
    /\ calls[i].rvalue = ReturnValue(calls[i].func, calls[i].args, runs)
    /\ \A n \in 1..(runs - 1) : calls[i].rvalue # ReturnValue(calls[i].func, calls[i].args, n)
    /\ calls[i].report # calls[i].entry
    /\ calls[i].seen = ComputeReport(metrics, calls[i].time_series)

\* A call of several runs has returned.
C2_Witness ==
  \E i \in ReturnedCalls : runs >= 2 /\ calls[i].rvalue.n = runs

\* The report self.report referred to when call i began, by the calls
\* before it: the one the last returning call stored, or the initial one.
RECURSIVE StoredBefore(_)
StoredBefore(i) ==
  IF i = 1 THEN [report |-> 1, seen |-> << >>]
  ELSE IF calls[i - 1].outcome = "returned"
    THEN [report |-> calls[i - 1].report, seen |-> calls[i - 1].seen]
  ELSE StoredBefore(i - 1)

\* C6: a call whose target raises in run k ends with that error after
\* exactly k invocations (k - 1 samples, k <= runs), returns no report,
\* prints nothing, and leaves self.report the dict of the previous
\* returning call (or the initial empty one), unchanged.
C6_TargetErrorPropagates ==
  \A i \in TargetErrors :
    LET c == calls[i]
        k == Len(c.invoked)
    IN /\ k = Len(c.time_series) + 1
       /\ k <= runs
       /\ c.invoked = Invocations(c, k)
       /\ c.report = 0
       /\ c.rvalue = None
       /\ c.printed = << >>
       /\ c.stored = c.entry
       /\ c.stored = StoredBefore(i).report
       /\ heap[c.stored] = StoredBefore(i).seen

\* The target raised in the second run of a call that followed a
\* returning call.
C6_Witness ==
  \E i \in TargetErrors :
    /\ Len(calls[i].invoked) = 2
    /\ i >= 2
    /\ calls[i - 1].outcome = "returned"
    /\ print_report

\* C7: the report of every call has one entry per bound metric, in the
\* metrics' order, each the metric applied to the runs samples of that
\* call alone, and the dict a call returned still holds what it held when
\* it was returned, whatever calls followed.
C7_FreshReport ==
  \A i \in ReturnedCalls :
    LET c == calls[i]
    IN /\ Len(c.time_series) = runs
       /\ KeySeq(c.seen) = KeySeq(metrics)
       /\ \A j \in DOMAIN metrics : c.seen[j].v = Apply(metrics[j].v, c.time_series)
       /\ heap[c.report] = c.seen
       /\ \A j \in ReturnedCalls : j # i => calls[j].report # c.report

\* Two calls returned different reports, and each still has its own.
C7_Witness ==
  /\ Len(calls) >= 2
  /\ calls[1].outcome = "returned"
  /\ calls[2].outcome = "returned"
  /\ calls[1].seen # calls[2].seen
  /\ heap[calls[1].report] = calls[1].seen
  /\ heap[calls[2].report] = calls[2].seen

\* The names the stats argument asks for: its strings and its callables.
Requested == {stats[i].name : i \in {j \in DOMAIN stats : stats[j].kind \in {"str", "callable"}}}

\* The strings of the stats argument that are no key of str_to_function.
UnknownAt == {i \in DOMAIN stats : stats[i].kind = "str" /\ stats[i].name \notin str_to_function}

\* The entries that are neither a string nor a callable.
OtherAt == {i \in DOMAIN stats : stats[i].kind = "other"}

\* C3: with runs == 1 no report, stored or returned, has the key stdev,
\* whether stdev was requested by name or as a function of that name, and
\* every returned report has exactly the other requested statistics.
C3_NoStdevForOneRun ==
  (timer = "ok" /\ runs = 1) =>
    /\ \A r \in DOMAIN heap : "stdev" \notin Keys(heap[r])
    /\ "stdev" \notin Keys(heap[report])
    /\ \A i \in ReturnedCalls :
         /\ "stdev" \notin Keys(calls[i].seen)
         /\ Keys(calls[i].seen) = Requested \ {"stdev"}
    /\ \A i \in DOMAIN calls : calls[i].error # "StatisticsError"

\* One run, stdev requested among others, and a call has returned.
C3_Witness ==
  /\ timer = "ok"
  /\ runs = 1
  /\ "stdev" \in Requested
  /\ \E i \in ReturnedCalls : Keys(calls[i].seen) # {} /\ calls[i].report = report

\* C4: a stats list with a string outside str_to_function makes the
\* construction raise, with the first such string as the error's key: no
\* Timer exists, so nothing is wrapped, called, measured or printed.
C4_UnknownNameFailsConstruction ==
  (timer # "new" /\ UnknownAt # {}) =>
    /\ timer = "KeyError"
    /\ \E i \in UnknownAt : key = stats[i].name /\ \A j \in UnknownAt : i <= j
    /\ wrapped = {}
    /\ calls = << >>
    /\ heap = << >>
    /\ stdout = << >>
    /\ \A t \in Threads : frames[t] = Idle

\* The construction raised on an unknown name that follows a known one.
C4_Witness ==
  /\ timer = "KeyError"
  /\ Len(stats) = 2
  /\ stats[1] = Str("mean")
  /\ key = "bogus"

\* C5 as stated: every entry is bound or makes the construction fail, so a
\* constructed Timer was given only recognised names and callables.
C5_Original == timer = "ok" => (UnknownAt = {} /\ OtherAt = {})

\* The last entry of stats with the name k, strings and callables alone.
LastNamed(k) ==
  stats[CHOOSE i \in DOMAIN stats :
          /\ stats[i].kind \in {"str", "callable"} /\ stats[i].name = k
          /\ \A j \in DOMAIN stats :
               (stats[j].kind \in {"str", "callable"} /\ stats[j].name = k) => j <= i]

\* C5 amended: the construction raises KeyError exactly when stats holds a
\* string outside str_to_function; otherwise a recognised name is bound to
\* its function, a callable under its own name, an entry that is neither a
\* string nor a callable binds nothing and raises nothing, and with
\* runs == 1 the binding stdev is dropped.
C5_EntriesBoundOrSkipped ==
  /\ timer = "KeyError" => UnknownAt # {}
  /\ timer = "ok" =>
       /\ UnknownAt = {}
       /\ Keys(metrics) = Requested \ (IF runs = 1 THEN {"stdev"} ELSE {})
       /\ Len(metrics) = Cardinality(Keys(metrics))
       /\ \A i \in DOMAIN metrics :
            LET e == LastNamed(metrics[i].k)
            IN metrics[i].v = IF e.kind = "str" THEN Builtin(e.name) ELSE e

\* A Timer constructed from a list with an entry that is neither.
C5_Witness ==
  /\ timer = "ok"
  /\ OtherAt # {}
  /\ Len(stats) = 2
  /\ Len(metrics) = 1

\* C8: the report a call prints starts with the header naming the target
\* of the wrapped function that was called.
C8_HeaderNamesTarget ==
  \A i \in ReturnedCalls :
    calls[i].printed # << >> => calls[i].printed[1] = HeaderLine(calls[i].func)

\* C9: a returning call prints exactly when print_report is set; it then
\* prints the header, one line per entry of its report in the report's
\* order, and the summary line exactly when mean and stdev are both keys
\* of the report, so never with runs == 1.
C9_PrintedLines ==
  \A i \in ReturnedCalls :
    LET c == calls[i]
        p == c.printed
        n == Len(c.seen)
        both == {"mean", "stdev"} \subseteq Keys(c.seen)
    IN /\ (p # << >>) <=> print_report
       /\ stdout = p
       /\ print_report =>
            /\ Len(p) = 1 + n + (IF both THEN 1 ELSE 0)
            /\ p[1].line = "header"
            /\ \A j \in 1..n : p[j + 1].line = "metric" /\ p[j + 1].name = Title(c.seen[j].k)
            /\ both => p[n + 2].line = "summary"
            /\ runs = 1 => \A j \in DOMAIN p : p[j].line # "summary"

\* A call printed its report with the summary line.
C9_Witness ==
  \E i \in ReturnedCalls :
    /\ print_report
    /\ Len(calls[i].printed) = Len(calls[i].seen) + 2
    /\ calls[i].printed[Len(calls[i].printed)].line = "summary"

\* The time series of the calls that have computed a report: the finished
\* ones and those past the reduction.
ReducedSeries ==
  {calls[i].time_series : i \in ReturnedCalls}
    \cup {frames[t].time_series : t \in {u \in threads : frames[u].pc \in {"print", "summary", "return"}}}

\* C10: with two threads in the same wrapped function, the report a call
\* returns is the dict self.report refers to when it returns: the report
\* of some call that has computed one, not always its own.
C10_ReturnsSharedReport ==
  \A i \in ReturnedCalls :
    /\ calls[i].report = calls[i].stored
    /\ calls[i].report # calls[i].entry
    /\ heap[calls[i].report] = calls[i].seen
    /\ \E ts \in ReducedSeries : calls[i].seen = ComputeReport(metrics, ts)

\* A call printed and returned the report computed from the other call's
\* samples.
C10_Witness ==
  \E i \in ReturnedCalls, j \in ReturnedCalls :
    /\ i # j
    /\ calls[i].seen # ComputeReport(metrics, calls[i].time_series)
    /\ calls[i].seen = ComputeReport(metrics, calls[j].time_series)
    /\ calls[i].printed[2].value = calls[j].seen[1].v

====
